---- MODULE Spec2Model ----
(***************************************************************************)
(* Streaming engine of react-native-markdown-stream: the accumulation      *)
(* buffer (core/stream-buffer.ts), the useMarkdownStream hook              *)
(* (hooks/useMarkdownStream.ts: reveal scheduler and ingestion loop) and   *)
(* the incomplete-markup sanitizer (incomplete-markdown.ts).               *)
(* Text is a sequence of one-character strings, so concatenation, prefix   *)
(* and tokenization are computed, not assumed.                             *)
(***************************************************************************)
EXTENDS Integers, Sequences, FiniteSets, TLC

VARIABLES
    bufferRef,         \* StreamBuffer.chunks: the ordered list of fragments
    content,           \* React state `content`: the Visible Value
    fullContent,       \* React state `fullContent`: the Accumulated Value
    isStreaming,       \* React state `isStreaming`
    controllerRef,     \* 0 = null, else the id of the session whose controller it holds
    sourceRef,         \* the `source` option (NoSource = undefined)
    initialValue,      \* the `initialValue` option (the seed)
    revealTimerRef,    \* TRUE when a setInterval handle is held
    pendingTokensRef,  \* the pending token queue
    revealModeRef,     \* "chunk" | "word" | "character"
    revealDelayRef,    \* the effective (clamped) delay
    sessions,          \* per start() call: its source, position, controller flag, pc
    nStarted,          \* number of start() calls that created a session
    onChunkLog,        \* calls of callbacks.onChunk, in order: the chunk passed
    onEndCount,        \* calls of callbacks.onEnd, per session
    onErrorCount,      \* calls of callbacks.onError, per session
    frozen,            \* TRUE from stop() until the host next calls start, appendChunk,
                       \* setContent, reset or setRevealMode
    lastOp             \* the operation that produced this state (see Op)

vars == <<bufferRef, content, fullContent, isStreaming, controllerRef, sourceRef,
          initialValue, revealTimerRef, pendingTokensRef, revealModeRef,
          revealDelayRef, sessions, nStarted, onChunkLog, onEndCount,
          onErrorCount, frozen, lastOp>>

----------------------------------------------------------------------------
(* Bounds of the model *)

MaxLen == 4        \* longest Accumulated Value explored
MaxChunks == 2     \* most onChunk calls explored
MaxSessions == 2   \* most start() calls explored
MaxDelay == 60     \* delays -MaxDelay..MaxDelay are passed to clampDelay
MaxProse == 3      \* longest prose before a marker, in characters
MaxRun == 2        \* longest run of letters after a marker
MaxUrl == 2        \* longest link destination, in characters
MaxText == 4       \* longest text over letters and asterisks
MaxPieces == 5     \* most pieces ($$, a letter, a line break) of a math text
MaxVisible == 3    \* most visible characters of a fragment given to tokenize

DEFAULT_REVEAL_DELAY == 28

----------------------------------------------------------------------------
(* Text helpers *)

RECURSIVE Join(_)
Join(ss) == IF ss = <<>> THEN <<>> ELSE Head(ss) \o Join(Tail(ss))

IsPrefix(p, s) == Len(p) <= Len(s) /\ SubSeq(s, 1, Len(p)) = p

IsSuffix(p, s) == Len(p) <= Len(s) /\ SubSeq(s, Len(s) - Len(p) + 1, Len(s)) = p

IsWhitespace(c) == c \in {" ", "\n", "\t"}

----------------------------------------------------------------------------
(* core/stream-buffer.ts: StreamBuffer, as the list `chunks` *)

StreamBufferNew(initial) == IF initial # <<>> THEN <<initial>> ELSE <<>>

\* Variant of append that puts the fragment in front of the list.
StreamBufferAppendFront(chunks, chunk) ==
    IF chunk = <<>> THEN chunks ELSE <<chunk>> \o chunks

StreamBufferAppend(chunks, chunk) ==
    IF chunk = <<>> THEN chunks ELSE Append(chunks, chunk)

StreamBufferValue(chunks) == Join(chunks)

StreamBufferReset(chunks) == <<>>

----------------------------------------------------------------------------
(* hooks/useMarkdownStream.ts: pure helpers *)

Modes == {"chunk", "word", "character"}

\* A raw fragment as a source delivers it: a string, null or undefined.
RawString(t) == [kind |-> "string", text |-> t]
RawNull == [kind |-> "null", text |-> <<>>]
RawUndefined == [kind |-> "undefined", text |-> <<>>]

normalizeChunk(chunk) ==
    IF chunk.kind = "string" THEN chunk.text
    ELSE IF chunk.kind \in {"null", "undefined"} THEN <<>>
    ELSE chunk.text

\* The shapes toAsyncIterable recognises, after resolveSource has called a factory.
SupportedShapes == {"readable", "asyncIterable", "iterable"}

isSupportedShape(shape) == shape \in SupportedShapes

\* Length of the maximal run of characters of s, from position 1, that are all
\* whitespace or all non-whitespace: one match of /(\s+|\S+)/.
RECURSIVE RunLength(_, _)
RunLength(s, k) ==
    IF k < Len(s) /\ IsWhitespace(s[k + 1]) = IsWhitespace(s[1])
    THEN RunLength(s, k + 1)
    ELSE k

RECURSIVE MatchRuns(_)
MatchRuns(s) ==
    IF s = <<>> THEN <<>>
    ELSE LET n == RunLength(s, 1)
         IN  <<SubSeq(s, 1, n)>> \o MatchRuns(SubSeq(s, n + 1, Len(s)))

tokenize(chunk, mode) ==
    IF mode = "character" THEN [i \in 1..Len(chunk) |-> <<chunk[i]>>]
    ELSE IF mode = "word"
         THEN (IF MatchRuns(chunk) = <<>> THEN <<chunk>> ELSE MatchRuns(chunk))
         ELSE <<chunk>>

\* A delay as the host passes it: undefined, NaN or a number.
DelayUndefined == [kind |-> "undefined", val |-> 0]
DelayNaN == [kind |-> "NaN", val |-> 0]
DelayNumber(n) == [kind |-> "number", val |-> n]

Max(a, b) == IF a >= b THEN a ELSE b

\* Variant of clampDelay without the Math.max(0, value) clamp.
clampDelayUnclamped(value) ==
    IF value.kind = "undefined" THEN DEFAULT_REVEAL_DELAY
    ELSE IF value.kind = "NaN" THEN DEFAULT_REVEAL_DELAY
    ELSE value.val

clampDelay(value) ==
    IF value.kind = "undefined" THEN DEFAULT_REVEAL_DELAY
    ELSE IF value.kind = "NaN" THEN DEFAULT_REVEAL_DELAY
    ELSE Max(0, value.val)

----------------------------------------------------------------------------
(* The scheduler part of the hook, as functions of the engine record         *)
(* e = [buffer, fullContent, content, pending, timer, mode, delay, log].     *)

clearRevealTimer(e) == [e EXCEPT !.timer = FALSE]

flushRevealQueue(e) == clearRevealTimer([e EXCEPT !.pending = <<>>])

startRevealLoop(e) ==
    IF e.timer \/ Len(e.pending) = 0 THEN e
    ELSE IF e.delay <= 0
         THEN [e EXCEPT !.pending = <<>>,
                        !.content = @ \o Join(e.pending)]
         ELSE [e EXCEPT !.timer = TRUE]

appendTokens(e, tokens) ==
    IF Len(tokens) = 0 THEN e
    ELSE startRevealLoop([e EXCEPT !.pending = @ \o tokens])

\* Variant of appendChunk without the early return on an empty chunk: the empty
\* chunk reaches callbacks.onChunk.
appendChunkAlwaysNotifies(e, chunk, sid) ==
    LET buf == StreamBufferAppend(e.buffer, chunk)
        nextFullValue == StreamBufferValue(buf)
        e1 == [e EXCEPT !.buffer = buf, !.fullContent = nextFullValue]
        e2 == IF e1.mode = "chunk"
              THEN [flushRevealQueue(e1) EXCEPT !.content = nextFullValue]
              ELSE appendTokens(e1, tokenize(chunk, e1.mode))
    IN  [e2 EXCEPT !.log = Append(@, chunk)]

\* Variant of appendChunk that queues the chunk's tokens in chunk mode too.
appendChunkAlwaysQueues(e, chunk, sid) ==
    IF chunk = <<>> THEN e
    ELSE LET buf == StreamBufferAppend(e.buffer, chunk)
             nextFullValue == StreamBufferValue(buf)
             e1 == [e EXCEPT !.buffer = buf, !.fullContent = nextFullValue]
             e2 == appendTokens(e1, tokenize(chunk, e1.mode))
         IN  [e2 EXCEPT !.log = Append(@, chunk)]

\* appendChunk(chunk), called by the host (sid = 0) or by session sid's loop.
appendChunk(e, chunk, sid) ==
    IF chunk = <<>> THEN e
    ELSE LET buf == StreamBufferAppend(e.buffer, chunk)
             nextFullValue == StreamBufferValue(buf)
             e1 == [e EXCEPT !.buffer = buf, !.fullContent = nextFullValue]
             e2 == IF e1.mode = "chunk"
                   THEN [flushRevealQueue(e1) EXCEPT !.content = nextFullValue]
                   ELSE appendTokens(e1, tokenize(chunk, e1.mode))
         IN  [e2 EXCEPT !.log = Append(@, chunk)]

\* Variant of revealTick that takes the newest token (pop) instead of the oldest.
revealTickNewest(e) ==
    IF e.pending = <<>> THEN clearRevealTimer(e)
    ELSE [e EXCEPT !.pending = SubSeq(@, 1, Len(@) - 1),
                   !.content = @ \o e.pending[Len(e.pending)]]

\* Variant of revealTick that keeps the interval when it finds the queue empty.
revealTickKeepsTimer(e) ==
    IF e.pending = <<>> THEN e
    ELSE [e EXCEPT !.pending = Tail(@), !.content = @ \o Head(e.pending)]

\* The interval callback of startRevealLoop.
revealTick(e) ==
    IF e.pending = <<>> THEN clearRevealTimer(e)
    ELSE [e EXCEPT !.pending = Tail(@), !.content = @ \o Head(e.pending)]

\* Variant of setContentDirect without the flushRevealQueue() call.
setContentDirectKeepsQueue(e, value) ==
    [e EXCEPT !.buffer = StreamBufferNew(value), !.fullContent = value,
              !.content = value]

setContentDirect(e, value) ==
    LET e1 == [e EXCEPT !.buffer = StreamBufferNew(value), !.fullContent = value]
    IN  [flushRevealQueue(e1) EXCEPT !.content = value]

reset(e, seed) ==
    LET b0 == StreamBufferReset(e.buffer)
        b1 == IF seed # <<>> THEN StreamBufferAppend(b0, seed) ELSE b0
        nextValue == StreamBufferValue(b1)
    IN  [clearRevealTimer([e EXCEPT !.buffer = b1, !.pending = <<>>])
            EXCEPT !.fullContent = nextValue, !.content = nextValue]

\* Variant of setRevealMode that records the mode and nothing else.
setRevealModeRefOnly(e, mode) == [e EXCEPT !.mode = mode]

setRevealMode(e, mode) ==
    LET e1 == [e EXCEPT !.mode = mode]
    IN  IF mode = "chunk"
        THEN [flushRevealQueue(e1) EXCEPT !.content = StreamBufferValue(e1.buffer)]
        ELSE e1

setRevealDelay(e, delay) == [e EXCEPT !.delay = clampDelay(delay)]

----------------------------------------------------------------------------
(* Sessions: start / stop and the ingestion loop.  h is the whole hook state: *)
(* the engine record plus [sessions, controller, isStreaming, onEnd, onError].*)

\* A source: its shape, the raw fragments it delivers and how it finishes
\* ("end": exhausted; "throw": raises after its fragments).
NoSource == [shape |-> "none", frags |-> <<>>, fin |-> "end"]

NoSession == [src |-> NoSource, pos |-> 0, cancelled |-> FALSE, pc |-> "none"]

SessionIds == 1..MaxSessions

\* Variant of stop that cancels the session but leaves the queue and the timer.
stopKeepsQueue(h) ==
    IF h.controller # 0
    THEN [h EXCEPT !.sessions[h.controller].cancelled = TRUE,
                   !.controller = 0,
                   !.isStreaming = FALSE]
    ELSE h

stop(h) ==
    LET h1 == IF h.controller # 0
              THEN [h EXCEPT !.sessions[h.controller].cancelled = TRUE,
                             !.controller = 0,
                             !.isStreaming = FALSE]
              ELSE h
    IN  flushRevealQueue(h1)

\* start(overrideSource) up to its first await; sid is the new controller.
start(h, activeSource, sid) ==
    LET h1 == stop(h)
    IN  [h1 EXCEPT !.sessions[sid] = [src |-> activeSource, pos |-> 0,
                                      cancelled |-> FALSE, pc |-> "running"],
                   !.controller = sid,
                   !.isStreaming = TRUE]

\* Variant of catchError that reports the error whether or not the session
\* was cancelled.
catchErrorAlways(h, sid) == [h EXCEPT !.onError[sid] = @ + 1]

\* Variant of catchError that also discards what the session had accumulated.
catchErrorClears(h, sid) ==
    IF ~h.sessions[sid].cancelled
    THEN [h EXCEPT !.onError[sid] = @ + 1,
                   !.buffer = <<>>, !.fullContent = <<>>, !.content = <<>>]
    ELSE h

\* catch (error) { if (!controller.cancelled) onError(error) }
catchError(h, sid) ==
    IF ~h.sessions[sid].cancelled
    THEN [h EXCEPT !.onError[sid] = @ + 1]
    ELSE h

\* after the loop: if (!controller.cancelled) onEnd()
afterLoop(h, sid) ==
    IF ~h.sessions[sid].cancelled
    THEN [h EXCEPT !.onEnd[sid] = @ + 1]
    ELSE h

\* finally { if (controllerRef.current === controller) ...; setIsStreaming(false) }
\* The async function returns: its iterator is dropped, its controller flag stays.
finallyBlock(h, sid) ==
    [h EXCEPT !.controller = IF @ = sid THEN 0 ELSE @,
              !.isStreaming = FALSE,
              !.sessions[sid] = [src |-> NoSource, pos |-> 0,
                                 cancelled |-> h.sessions[sid].cancelled,
                                 pc |-> "done"]]

\* Variant of sessionStep whose loop body does not test controller.cancelled.
sessionStepUnchecked(h, sid) ==
    LET s == h.sessions[sid]
    IN  IF ~isSupportedShape(s.src.shape)
        THEN finallyBlock(catchError(h, sid), sid)
        ELSE IF s.pos < Len(s.src.frags)
        THEN appendChunk([h EXCEPT !.sessions[sid].pos = @ + 1],
                         normalizeChunk(s.src.frags[s.pos + 1]), sid)
        ELSE IF s.src.fin = "end"
        THEN finallyBlock(afterLoop(h, sid), sid)
        ELSE finallyBlock(catchError(h, sid), sid)

\* One resumption of session sid's `for await` loop: the source is found
\* unsupported, delivers its next fragment, ends or raises.
sessionStep(h, sid) ==
    LET s == h.sessions[sid]
    IN  IF ~isSupportedShape(s.src.shape)
        THEN finallyBlock(catchError(h, sid), sid)
        ELSE IF s.pos < Len(s.src.frags)
        THEN IF s.cancelled
             THEN finallyBlock(afterLoop(h, sid), sid)
             ELSE appendChunk([h EXCEPT !.sessions[sid].pos = @ + 1],
                              normalizeChunk(s.src.frags[s.pos + 1]), sid)
        ELSE IF s.src.fin = "end"
        THEN finallyBlock(afterLoop(h, sid), sid)
        ELSE finallyBlock(catchError(h, sid), sid)

----------------------------------------------------------------------------
(* incomplete-markdown.ts: the sanitizer parseMarkdown applies to the text   *)
(* it is given.  Positions are 1-based; 0 stands for "no match" (-1 in the   *)
(* source).                                                                  *)

Letters ==
    {"a", "b", "c", "d", "e", "f", "g", "h", "i", "j", "k", "l", "m",
     "n", "o", "p", "q", "r", "s", "t", "u", "v", "w", "x", "y", "z",
     "A", "B", "C", "D", "E", "F", "G", "H", "I", "J", "K", "L", "M",
     "N", "O", "P", "Q", "R", "S", "T", "U", "V", "W", "X", "Y", "Z"}

\* The backtick character, which a TLA+ string cannot hold.
BACKTICK == "BACKTICK"

Digits == {"0", "1", "2", "3", "4", "5", "6", "7", "8", "9"}

\* /[\p{L}\p{N}_]/u
IsWordChar(c) == c \in Letters \cup Digits \cup {"_"}

MinOf(S) == CHOOSE x \in S : \A y \in S : x <= y

MaxOf(S) == CHOOSE x \in S : \A y \in S : x >= y

\* text.substring(0, n) and text.substring(n)
Take(text, n) == SubSeq(text, 1, n)

Drop(text, n) == SubSeq(text, n + 1, Len(text))

StartsAt(text, pat, i) ==
    /\ i >= 1
    /\ i + Len(pat) - 1 <= Len(text)
    /\ SubSeq(text, i, i + Len(pat) - 1) = pat

Occurrences(text, pat) == {i \in 1..Len(text) : StartsAt(text, pat, i)}

indexOf(text, pat) ==
    IF Occurrences(text, pat) = {} THEN 0 ELSE MinOf(Occurrences(text, pat))

lastIndexOf(text, pat) ==
    IF Occurrences(text, pat) = {} THEN 0 ELSE MaxOf(Occurrences(text, pat))

includes(text, c) == \E i \in 1..Len(text) : text[i] = c

\* (text.match(/pat/g) || []).length: matches are taken left to right and do
\* not overlap.
RECURSIVE CountFrom(_, _, _)
CountFrom(text, pat, i) ==
    IF i + Len(pat) - 1 > Len(text) THEN 0
    ELSE IF StartsAt(text, pat, i) THEN 1 + CountFrom(text, pat, i + Len(pat))
    ELSE CountFrom(text, pat, i + 1)

countMatches(text, pat) == CountFrom(text, pat, 1)

\* /(marker)([^c]*?)$/ for c in excluded: the leftmost place where marker is
\* followed, up to the end of the text, by no excluded character.
TailMatch(text, marker, excluded) ==
    LET S == {i \in Occurrences(text, marker) :
                 \A j \in (i + Len(marker))..Len(text) : text[j] \notin excluded}
    IN  IF S = {} THEN 0 ELSE MinOf(S)

\* !content || /^[\s_~*`]*$/.test(content)
IsNoise(s) ==
    \A i \in 1..Len(s) : IsWhitespace(s[i]) \/ s[i] \in {"_", "~", "*", BACKTICK}

\* text.substring(lineStart, markerIndex): the line the marker stands on, up to it.
LineBefore(text, markerIndex) ==
    LET nl == {j \in 1..(markerIndex - 1) : text[j] = "\n"}
        lineStart == IF nl = {} THEN 1 ELSE MaxOf(nl) + 1
    IN  SubSeq(text, lineStart, markerIndex - 1)

\* /^[\s]*[-*+][\s]+$/
IsListMarkerLine(line) ==
    \E k \in 1..(Len(line) - 1) :
        /\ line[k] \in {"-", "*", "+"}
        /\ \A j \in 1..Len(line) : j # k => IsWhitespace(line[j])

Fence == <<BACKTICK, BACKTICK, BACKTICK>>

INCOMPLETE_LINK_PLACEHOLDER ==
    <<"s", "t", "r", "e", "a", "m", "d", "o", "w", "n", ":",
      "i", "n", "c", "o", "m", "p", "l", "e", "t", "e", "-", "l", "i", "n", "k">>

\* `](${INCOMPLETE_LINK_PLACEHOLDER})`
PlaceholderTail == <<"]", "(">> \o INCOMPLETE_LINK_PLACEHOLDER \o <<")">>

hasCompleteCodeBlock(text) ==
    LET tripleBackticks == countMatches(text, Fence)
    IN  tripleBackticks > 0 /\ tripleBackticks % 2 = 0 /\ includes(text, "\n")

\* /(!?)\[([^\]]+)\]\(([^)]+)$/ tried at the "[" in position j: the link text
\* runs to the first "]", "(" follows, and a non-empty rest without ")" ends
\* the text.  The value is the position of that "]", or 0.
LinkUrlCloseAt(text, j) ==
    LET closes == {k \in (j + 1)..Len(text) : text[k] = "]"}
        k == IF closes = {} THEN 0 ELSE MinOf(closes)
    IN  IF /\ text[j] = "["
           /\ k > j + 1
           /\ k + 2 <= Len(text)
           /\ text[k + 1] = "("
           /\ \A i \in (k + 2)..Len(text) : text[i] # ")"
        THEN k ELSE 0

\* /(!?\[)([^\]]*?)$/ : the leftmost "[" with no "]" after it.
OpenBracketAt(text) ==
    LET S == {j \in 1..Len(text) :
                 text[j] = "[" /\ \A i \in (j + 1)..Len(text) : text[i] # "]"}
    IN  IF S = {} THEN 0 ELSE MinOf(S)

handleIncompleteLinksAndImages(text) ==
    LET urls == {j \in 1..Len(text) : LinkUrlCloseAt(text, j) > 0}
        j == IF urls = {} THEN 0 ELSE MinOf(urls)
        o == OpenBracketAt(text)
    IN  IF j > 0
        THEN LET isImage == j > 1 /\ text[j - 1] = "!"
                 linkText == SubSeq(text, j + 1, LinkUrlCloseAt(text, j) - 1)
                 partialUrl == Drop(text, LinkUrlCloseAt(text, j) + 1)
                 matched == (IF isImage THEN <<"!">> ELSE <<>>) \o <<"[">>
                            \o linkText \o <<"]", "(">> \o partialUrl
                 matchStart == lastIndexOf(text, matched)
                 beforeLink == Take(text, matchStart - 1)
             IN  IF isImage THEN beforeLink \o linkText
                 ELSE beforeLink \o <<"[">> \o linkText \o PlaceholderTail
        ELSE IF o > 0
        THEN LET isImage == o > 1 /\ text[o - 1] = "!"
                 trailing == Drop(text, o)
                 startIndex == lastIndexOf(text, <<"!", "[">>)
                 beforeMarker == Take(text, startIndex - 1)
             IN  IF isImage THEN beforeMarker \o trailing
                 ELSE text \o PlaceholderTail
        ELSE text

\* The body shared by handleIncompleteBold and
\* handleIncompleteDoubleUnderscoreItalic, which differ in the marker only.
closeDoubleMarker(text, marker, c) ==
    LET m == TailMatch(text, marker, {c})
        contentAfterMarker == Drop(text, m + 1)
        markerIndex == lastIndexOf(text, marker)
        lineBeforeMarker == LineBefore(text, markerIndex)
    IN  IF m = 0 THEN text
        ELSE IF IsNoise(contentAfterMarker) THEN text
        ELSE IF IsListMarkerLine(lineBeforeMarker) /\ includes(contentAfterMarker, "\n")
        THEN text
        ELSE IF countMatches(text, marker) % 2 = 1 THEN text \o marker
        ELSE text

\* Variant of handleIncompleteBold that never appends the closing marker.
handleIncompleteBoldNever(text) == text

handleIncompleteBold(text) ==
    IF hasCompleteCodeBlock(text) THEN text
    ELSE closeDoubleMarker(text, <<"*", "*">>, "*")

handleIncompleteDoubleUnderscoreItalic(text) ==
    closeDoubleMarker(text, <<"_", "_">>, "_")

PrevChar(text, i) == IF i > 1 THEN text[i - 1] ELSE ""

NextChar(text, i) == IF i < Len(text) THEN text[i + 1] ELSE ""

\* beforeAsterisk.trim() === '' && (nextChar === ' ' || nextChar === '\t')
IsListAsterisk(text, i) ==
    /\ \A j \in 1..Len(LineBefore(text, i)) : IsWhitespace(LineBefore(text, i)[j])
    /\ NextChar(text, i) \in {" ", "\t"}

countSingleAsterisks(text) ==
    Cardinality({i \in 1..Len(text) :
        /\ text[i] = "*"
        /\ PrevChar(text, i) # "\\"
        /\ ~IsListAsterisk(text, i)
        /\ PrevChar(text, i) # "*"
        /\ NextChar(text, i) # "*"})

handleIncompleteSingleAsteriskItalic(text) ==
    LET singles == {i \in 1..Len(text) :
                       /\ text[i] = "*"
                       /\ PrevChar(text, i) # "*"
                       /\ NextChar(text, i) # "*"}
        firstSingleAsteriskIndex == IF singles = {} THEN 0 ELSE MinOf(singles)
        contentAfterFirstAsterisk == Drop(text, firstSingleAsteriskIndex)
    IN  IF hasCompleteCodeBlock(text) THEN text
        ELSE IF TailMatch(text, <<"*">>, {"*"}) = 0 THEN text
        ELSE IF firstSingleAsteriskIndex = 0 THEN text
        ELSE IF IsNoise(contentAfterFirstAsterisk) THEN text
        ELSE IF countSingleAsterisks(text) % 2 = 1 THEN text \o <<"*">>
        ELSE text

\* One step of the scan of isWithinMathBlock: m = [i, inline, block].
RECURSIVE MathScan(_, _, _)
MathScan(text, position, m) ==
    IF m.i > Len(text) \/ m.i >= position THEN m.inline \/ m.block
    ELSE IF text[m.i] = "\\" /\ m.i + 1 <= Len(text) /\ text[m.i + 1] = "$"
    THEN MathScan(text, position, [m EXCEPT !.i = @ + 2])
    ELSE IF text[m.i] = "$"
    THEN IF m.i + 1 <= Len(text) /\ text[m.i + 1] = "$"
         THEN MathScan(text, position,
                       [i |-> m.i + 2, inline |-> FALSE, block |-> ~m.block])
         ELSE IF ~m.block
         THEN MathScan(text, position, [m EXCEPT !.i = @ + 1, !.inline = ~@])
         ELSE MathScan(text, position, [m EXCEPT !.i = @ + 1])
    ELSE MathScan(text, position, [m EXCEPT !.i = @ + 1])

isWithinMathBlock(text, position) ==
    MathScan(text, position, [i |-> 1, inline |-> FALSE, block |-> FALSE])

\* prevChar && nextChar && both are word characters
IsIntraword(text, i) ==
    /\ PrevChar(text, i) # ""
    /\ NextChar(text, i) # ""
    /\ IsWordChar(PrevChar(text, i))
    /\ IsWordChar(NextChar(text, i))

countSingleUnderscores(text) ==
    Cardinality({i \in 1..Len(text) :
        /\ text[i] = "_"
        /\ PrevChar(text, i) # "\\"
        /\ ~isWithinMathBlock(text, i)
        /\ ~IsIntraword(text, i)
        /\ PrevChar(text, i) # "_"
        /\ NextChar(text, i) # "_"})

\* text.match(/\n+$/): the number of line breaks that end the text.
RECURSIVE TrailingNewlines(_)
TrailingNewlines(text) ==
    IF text # <<>> /\ text[Len(text)] = "\n"
    THEN 1 + TrailingNewlines(Take(text, Len(text) - 1))
    ELSE 0

\* Variant of handleIncompleteSingleUnderscoreItalic that takes an intraword
\* underscore for an opening marker.
handleIncompleteSingleUnderscoreItalicIntraword(text) ==
    LET singles == {i \in 1..Len(text) :
                       /\ text[i] = "_"
                       /\ PrevChar(text, i) # "_"
                       /\ NextChar(text, i) # "_"}
    IN  IF singles = {} \/ IsNoise(Drop(text, MinOf(singles))) THEN text
        ELSE IF Cardinality(singles) % 2 = 1 THEN text \o <<"_">>
        ELSE text

\* Variant of handleIncompleteSingleUnderscoreItalic that closes the span in
\* place of the trailing line breaks.
handleIncompleteSingleUnderscoreItalicTrims(text) ==
    LET singles == {i \in 1..Len(text) :
                       /\ text[i] = "_"
                       /\ PrevChar(text, i) # "_"
                       /\ NextChar(text, i) # "_"
                       /\ PrevChar(text, i) # "\\"
                       /\ ~isWithinMathBlock(text, i)
                       /\ ~IsIntraword(text, i)}
        firstSingleUnderscoreIndex == IF singles = {} THEN 0 ELSE MinOf(singles)
        contentAfterFirstUnderscore == Drop(text, firstSingleUnderscoreIndex)
        n == TrailingNewlines(text)
    IN  IF hasCompleteCodeBlock(text) THEN text
        ELSE IF TailMatch(text, <<"_">>, {"_"}) = 0 THEN text
        ELSE IF firstSingleUnderscoreIndex = 0 THEN text
        ELSE IF IsNoise(contentAfterFirstUnderscore) THEN text
        ELSE IF countSingleUnderscores(text) % 2 = 1
        THEN IF n > 0
             THEN Take(text, Len(text) - n) \o <<"_">>
             ELSE text \o <<"_">>
        ELSE text

handleIncompleteSingleUnderscoreItalic(text) ==
    LET singles == {i \in 1..Len(text) :
                       /\ text[i] = "_"
                       /\ PrevChar(text, i) # "_"
                       /\ NextChar(text, i) # "_"
                       /\ PrevChar(text, i) # "\\"
                       /\ ~isWithinMathBlock(text, i)
                       /\ ~IsIntraword(text, i)}
        firstSingleUnderscoreIndex == IF singles = {} THEN 0 ELSE MinOf(singles)
        contentAfterFirstUnderscore == Drop(text, firstSingleUnderscoreIndex)
        n == TrailingNewlines(text)
    IN  IF hasCompleteCodeBlock(text) THEN text
        ELSE IF TailMatch(text, <<"_">>, {"_"}) = 0 THEN text
        ELSE IF firstSingleUnderscoreIndex = 0 THEN text
        ELSE IF IsNoise(contentAfterFirstUnderscore) THEN text
        ELSE IF countSingleUnderscores(text) % 2 = 1
        THEN IF n > 0
             THEN Take(text, Len(text) - n) \o <<"_">> \o Drop(text, Len(text) - n)
             ELSE text \o <<"_">>
        ELSE text

isPartOfTripleBacktick(text, index) ==
    \/ StartsAt(text, Fence, index)
    \/ StartsAt(text, Fence, index - 1)
    \/ StartsAt(text, Fence, index - 2)

countSingleBackticks(text) ==
    Cardinality({i \in 1..Len(text) :
        text[i] = BACKTICK /\ ~isPartOfTripleBacktick(text, i)})

\* /^```[^`\n]*```?$/
IsInlineTripleBacktick(text) ==
    \E e \in {2, 3} :
        /\ Len(text) >= 3 + e
        /\ StartsAt(text, Fence, 1)
        /\ \A i \in 4..(Len(text) - e) : text[i] \notin {BACKTICK, "\n"}
        /\ \A i \in (Len(text) - e + 1)..Len(text) : text[i] = BACKTICK

handleIncompleteInlineCode(text) ==
    LET allTripleBackticks == countMatches(text, Fence)
        insideIncompleteCodeBlock == allTripleBackticks % 2 = 1
        m == TailMatch(text, <<BACKTICK>>, {BACKTICK})
        contentAfterMarker == Drop(text, m)
    IN  IF IsInlineTripleBacktick(text) /\ ~includes(text, "\n")
        THEN IF IsSuffix(<<BACKTICK, BACKTICK>>, text) /\ ~IsSuffix(Fence, text)
             THEN text \o <<BACKTICK>>
             ELSE text
        ELSE IF allTripleBackticks > 0 /\ allTripleBackticks % 2 = 0
                /\ includes(text, "\n")
        THEN text
        ELSE IF (IsSuffix(Fence \o <<"\n">>, text) \/ IsSuffix(Fence, text))
                /\ allTripleBackticks % 2 = 0
        THEN text
        ELSE IF m > 0 /\ ~insideIncompleteCodeBlock
        THEN IF IsNoise(contentAfterMarker) THEN text
             ELSE IF countSingleBackticks(text) % 2 = 1 THEN text \o <<BACKTICK>>
             ELSE text
        ELSE text

handleIncompleteStrikethrough(text) ==
    LET m == TailMatch(text, <<"~", "~">>, {"~"})
        contentAfterMarker == Drop(text, m + 1)
    IN  IF m = 0 THEN text
        ELSE IF IsNoise(contentAfterMarker) THEN text
        ELSE IF countMatches(text, <<"~", "~">>) % 2 = 1 THEN text \o <<"~", "~">>
        ELSE text

handleIncompleteBlockKatex(text) ==
    LET dollarPairs == countMatches(text, <<"$", "$">>)
        firstDollarIndex == indexOf(text, <<"$", "$">>)
        hasNewlineAfterStart ==
            /\ firstDollarIndex # 0
            /\ \E i \in firstDollarIndex..Len(text) : text[i] = "\n"
    IN  IF dollarPairs % 2 = 0 THEN text
        ELSE IF hasNewlineAfterStart /\ ~IsSuffix(<<"\n">>, text)
        THEN text \o <<"\n", "$", "$">>
        ELSE text \o <<"$", "$">>

\* The maximal runs of asterisks (/\*+/g), as the set of their <<start, length>>.
AsteriskRuns(text) ==
    {<<i, n>> \in (1..Len(text)) \X (1..Len(text)) :
        /\ PrevChar(text, i) # "*"
        /\ i + n - 1 <= Len(text)
        /\ \A j \in i..(i + n - 1) : text[j] = "*"
        /\ NextChar(text, i + n - 1) # "*"}

RECURSIVE SumThirds(_)
SumThirds(runs) ==
    IF runs = {} THEN 0
    ELSE LET r == CHOOSE x \in runs : TRUE
         IN  (IF r[2] >= 3 THEN r[2] \div 3 ELSE 0) + SumThirds(runs \ {r})

countTripleAsterisks(text) == SumThirds(AsteriskRuns(text))

\* /^\*{4,}$/
IsAsterisksOnly(text) ==
    Len(text) >= 4 /\ \A i \in 1..Len(text) : text[i] = "*"

handleIncompleteBoldItalic(text) ==
    LET m == TailMatch(text, <<"*", "*", "*">>, {"*"})
        contentAfterMarker == Drop(text, m + 2)
    IN  IF hasCompleteCodeBlock(text) THEN text
        ELSE IF IsAsterisksOnly(text) THEN text
        ELSE IF m = 0 THEN text
        ELSE IF IsNoise(contentAfterMarker) THEN text
        ELSE IF countTripleAsterisks(text) % 2 = 1 THEN text \o <<"*", "*", "*">>
        ELSE text

\* The emphasis, code, strikethrough and math stages, in the order
\* sanitizeIncompleteMarkdown applies them.
LaterStages(text) ==
    handleIncompleteBlockKatex(
      handleIncompleteStrikethrough(
        handleIncompleteInlineCode(
          handleIncompleteSingleUnderscoreItalic(
            handleIncompleteSingleAsteriskItalic(
              handleIncompleteDoubleUnderscoreItalic(
                handleIncompleteBold(
                  handleIncompleteBoldItalic(text))))))))

sanitizeIncompleteMarkdown(text) ==
    IF text = <<>> THEN text
    ELSE LET result == handleIncompleteLinksAndImages(text)
         IN  IF IsSuffix(PlaceholderTail, result) THEN result
             ELSE LaterStages(result)

\* core/parser.ts: the text parseMarkdown hands to the Markdown parser
\* (safeMarkdown).
parseMarkdown(markdown) == sanitizeIncompleteMarkdown(markdown)

----------------------------------------------------------------------------
(* Inputs explored *)

ChA == <<"a">>
ChBC == <<"b", " ", "c">>

HostChunks == {<<>>, ChA, ChBC}

ContentValues == {<<"z">>}

\* The options the hook is constructed with: the seed and the `source` option.
Options == {[initialValue |-> <<>>, source |-> "none"],
            [initialValue |-> <<"s">>, source |-> "given"]}

DelayInputs == {DelayUndefined, DelayNumber(0 - 1), DelayNumber(0)}

SrcEnd == [shape |-> "iterable", frags |-> <<RawNull, RawString(ChA)>>, fin |-> "end"]
SrcThrow == [shape |-> "asyncIterable", frags |-> <<RawString(ChBC)>>, fin |-> "throw"]
SrcBad == [shape |-> "object", frags |-> <<>>, fin |-> "end"]

Sources == {SrcEnd, SrcThrow, SrcBad}

\* Delays for the check of clampDelay alone.
WideDelayInputs ==
    {DelayUndefined, DelayNaN} \cup {DelayNumber(n) : n \in (0 - MaxDelay)..MaxDelay}

\* The scenario source: three fragments of a heading and a bold word.
ScenarioF1 == <<"#", " ", "H", "i", "\n">>
ScenarioF2 == <<"t", "h", "i", "s", " ", "i", "s", " ", "*", "*", "b", "o">>
ScenarioF3 == <<"l", "d", "*", "*", "\n">>

SrcScenario ==
    [shape |-> "asyncIterable",
     frags |-> <<RawString(ScenarioF1), RawString(ScenarioF2), RawString(ScenarioF3)>>,
     fin |-> "end"]

\* Texts over an alphabet.
RECURSIVE StringsOfLen(_, _)
StringsOfLen(alphabet, n) ==
    IF n = 0 THEN {<<>>}
    ELSE {Append(t, c) : t \in StringsOfLen(alphabet, n - 1), c \in alphabet}

StringsUpTo(alphabet, n) == UNION {StringsOfLen(alphabet, k) : k \in 0..n}

\* Texts given to the sanitizer: prose, an opening marker, a run of letters.
Prose == StringsUpTo({"a", " "}, MaxProse)

LetterRuns == StringsUpTo({"x"}, MaxRun) \ {<<>>}

Markers == {<<"*", "*", "*">>, <<"*", "*">>, <<"_", "_">>, <<"*">>, <<"_">>,
            <<BACKTICK>>, <<"~", "~">>}

OpenMarkerTexts == {p \o M \o r : p \in Prose, M \in Markers, r \in LetterRuns}

\* Texts that end with a complete fenced code block with emphasis markers in it.
EmphasisMarkers == {<<"*">>, <<"*", "*">>, <<"*", "*", "*">>, <<"_">>, <<"_", "_">>}

FencedTexts ==
    {p \o Fence \o <<"\n">> \o M \o r \o <<"\n">> \o Fence \o e :
        p \in {<<>>, <<"a", "\n">>}, M \in EmphasisMarkers, r \in LetterRuns,
        e \in {<<>>, <<"\n">>}}

EmphasisTexts ==
    OpenMarkerTexts \cup FencedTexts \cup StringsUpTo({"a", "*"}, MaxText)

\* Link and image texts: prose, a link text, a destination of URL characters.
UrlChars == {"h", "1", ":", "/", ".", "-", "_", "~", "?", "=", "&"}

Destinations == StringsUpTo(UrlChars, MaxUrl) \ {<<>>}

LinkProse == {<<>>, <<"a", " ">>}

LinkWords == {<<"t">>, <<"t", " ", "t">>}

ValidLinkTexts ==
    {p \o <<"[">> \o t \o <<"]", "(">> \o u \o <<")">> :
        p \in LinkProse, t \in {<<"t">>}, u \in Destinations}

BrokenLinkTexts ==
    {p \o <<"[">> \o t \o <<"]", "(">> \o u :
        p \in LinkProse, t \in LinkWords, u \in StringsUpTo({"h", "/", "_"}, MaxUrl)}
    \cup {p \o <<"[">> \o t : p \in LinkProse, t \in LinkWords \cup {<<>>}}

OpenImageTexts ==
    {p \o <<"!", "[">> \o t : p \in LinkProse, t \in LinkWords \cup {<<>>}}

OpenImageUrlTexts ==
    {p \o <<"!", "[">> \o t \o <<"]", "(">> \o u :
        p \in LinkProse, t \in LinkWords, u \in StringsUpTo({"h", "/", "_"}, MaxUrl) \ {<<>>}}

LinkTexts ==
    ValidLinkTexts \cup BrokenLinkTexts \cup OpenImageTexts \cup OpenImageUrlTexts

----------------------------------------------------------------------------
(* The state machine *)

Hook == [buffer |-> bufferRef, fullContent |-> fullContent, content |-> content,
         pending |-> pendingTokensRef, timer |-> revealTimerRef,
         mode |-> revealModeRef, delay |-> revealDelayRef, log |-> onChunkLog,
         sessions |-> sessions, controller |-> controllerRef,
         isStreaming |-> isStreaming, onEnd |-> onEndCount, onError |-> onErrorCount]

InBounds(h) == Len(h.fullContent) <= MaxLen /\ Len(h.log) <= MaxChunks

\* The state after a handler has run.
Assign(h) ==
    /\ bufferRef' = h.buffer
    /\ fullContent' = h.fullContent
    /\ content' = h.content
    /\ pendingTokensRef' = h.pending
    /\ revealTimerRef' = h.timer
    /\ revealModeRef' = h.mode
    /\ revealDelayRef' = h.delay
    /\ onChunkLog' = h.log
    /\ sessions' = h.sessions
    /\ controllerRef' = h.controller
    /\ isStreaming' = h.isStreaming
    /\ onEndCount' = h.onEnd
    /\ onErrorCount' = h.onError

Commit(h) == InBounds(h) /\ Assign(h)

\* The label of an operation: its name, the session it concerns (0: none), the
\* delay it was passed, and a count taken before it ran (the pending tokens
\* before a mode switch, a reset or a setContent; the fragments consumed before
\* a loop resumption).
Op(name, sid, delay, pre) == [op |-> name, sid |-> sid, arg |-> delay, pre |-> pre]

InitOf(delays) ==
    /\ \E o \in Options :
          /\ initialValue = o.initialValue
          /\ sourceRef = IF o.source = "given" THEN SrcEnd ELSE NoSource
    /\ bufferRef = StreamBufferNew(initialValue)
    /\ content = initialValue
    /\ fullContent = initialValue
    /\ isStreaming = FALSE
    /\ controllerRef = 0
    /\ revealTimerRef = FALSE
    /\ pendingTokensRef = <<>>
    /\ revealModeRef \in Modes
    /\ \E d \in delays :
          /\ revealDelayRef = clampDelay(d)
          /\ lastOp = Op("init", 0, d, 0)
    /\ sessions = [i \in SessionIds |-> NoSession]
    /\ nStarted = 0
    /\ onChunkLog = <<>>
    /\ onEndCount = [i \in SessionIds |-> 0]
    /\ onErrorCount = [i \in SessionIds |-> 0]
    /\ frozen = FALSE

Init == InitOf(DelayInputs)

AppendChunk ==
    \E chunk \in HostChunks :
        /\ Commit(appendChunk(Hook, chunk, 0))
        /\ frozen' = FALSE
        /\ lastOp' = Op("appendChunk", 0, DelayUndefined, 0)
        /\ UNCHANGED <<sourceRef, initialValue, nStarted>>

RevealTick ==
    /\ revealTimerRef
    /\ Commit(revealTick(Hook))
    /\ lastOp' = Op("tick", 0, DelayUndefined, 0)
    /\ UNCHANGED <<sourceRef, initialValue, nStarted, frozen>>

SetRevealMode ==
    \E mode \in Modes :
        /\ Commit(setRevealMode(Hook, mode))
        /\ frozen' = FALSE
        /\ lastOp' = Op("setRevealMode", 0, DelayUndefined, Len(pendingTokensRef))
        /\ UNCHANGED <<sourceRef, initialValue, nStarted>>

SetRevealDelayOf(delays) ==
    \E delay \in delays :
        /\ Commit(setRevealDelay(Hook, delay))
        /\ lastOp' = Op("setRevealDelay", 0, delay, 0)
        /\ UNCHANGED <<sourceRef, initialValue, nStarted, frozen>>

SetRevealDelay == SetRevealDelayOf(DelayInputs)

Stop ==
    /\ Commit(stop(Hook))
    /\ frozen' = TRUE
    /\ lastOp' = Op("stop", 0, DelayUndefined, 0)
    /\ UNCHANGED <<sourceRef, initialValue, nStarted>>

\* start(overrideSource): returns at once when neither an override nor the
\* `source` option is given.
Start ==
    \E overrideSource \in Sources \cup {NoSource} :
        LET activeSource == IF overrideSource # NoSource THEN overrideSource
                            ELSE sourceRef
        IN  /\ activeSource # NoSource
            /\ nStarted < MaxSessions
            /\ Commit(start(Hook, activeSource, nStarted + 1))
            /\ nStarted' = nStarted + 1
            /\ frozen' = FALSE
            /\ lastOp' = Op("start", nStarted + 1, DelayUndefined, 0)
            /\ UNCHANGED <<sourceRef, initialValue>>

\* What the source does when session s's loop resumes.
StepKind(s) ==
    IF ~isSupportedShape(s.src.shape) THEN "unsupported"
    ELSE IF s.pos < Len(s.src.frags) THEN "fragment"
    ELSE s.src.fin

SessionStep ==
    \E sid \in SessionIds :
        /\ sessions[sid].pc = "running"
        /\ Commit(sessionStep(Hook, sid))
        /\ lastOp' = Op(StepKind(sessions[sid]), sid, DelayUndefined, sessions[sid].pos)
        /\ UNCHANGED <<sourceRef, initialValue, nStarted, frozen>>

Reset ==
    /\ Commit(reset(Hook, initialValue))
    /\ frozen' = FALSE
    /\ lastOp' = Op("reset", 0, DelayUndefined, Len(pendingTokensRef))
    /\ UNCHANGED <<sourceRef, initialValue, nStarted>>

SetContentOf(values) ==
    \E value \in values :
        /\ Assign(setContentDirect(Hook, value))
        /\ frozen' = FALSE
        /\ lastOp' = Op("setContent", 0, DelayUndefined, Len(pendingTokensRef))
        /\ UNCHANGED <<sourceRef, initialValue, nStarted>>

SetContent == SetContentOf(ContentValues)

Next ==
    \/ AppendChunk
    \/ RevealTick
    \/ SetRevealMode
    \/ SetRevealDelay
    \/ Stop
    \/ Start
    \/ SessionStep
    \/ Reset
    \/ SetContent

Spec == Init /\ [][Next]_vars

\* clampDelay on its own: the option and setRevealDelay over a wide range.
InitDelay == InitOf(WideDelayInputs)

ClampDelayStep == SetRevealDelayOf(WideDelayInputs)

SpecDelay == InitDelay /\ [][ClampDelayStep]_vars

\* The sanitizer on its own: the component renders parseMarkdown(content), and
\* setContent makes any text the content.
SanitizedValue == parseMarkdown(content)

InitSanitizer == InitOf({DelayUndefined}) /\ revealModeRef = "chunk"

SetEmphasisText == SetContentOf(EmphasisTexts)

SpecEmphasis == InitSanitizer /\ [][SetEmphasisText]_vars

SetLinkText == SetContentOf(LinkTexts)

SpecLinks == InitSanitizer /\ [][SetLinkText]_vars

\* Texts for the later stages: a marker with nothing but whitespace after it,
\* block math, prose after a complete code block, open markers before a
\* trailing line break, and short texts over letters, markers and line breaks.
BlockMarkers == Markers \cup {<<"$", "$">>}

BareMarkerTexts ==
    {p \o M \o w : p \in Prose, M \in BlockMarkers,
                   w \in {<<>>, <<" ">>, <<"\n">>}}

MathPieces == {<<"$", "$">>, <<"a">>, <<"\n">>}

MathTexts == {Join(ps) : ps \in StringsUpTo(MathPieces, MaxPieces)}

CodeBlock == Fence \o <<"\n", "x", "\n">> \o Fence

AfterFenceText(p, M, r) == CodeBlock \o <<"\n">> \o p \o M \o r

AfterFenceTexts ==
    {AfterFenceText(p, M, r) :
        p \in {<<>>, <<"a", " ">>}, M \in {<<"*", "*">>, <<"*">>}, r \in LetterRuns}

RepairTexts ==
    BareMarkerTexts \cup MathTexts \cup AfterFenceTexts \cup OpenMarkerTexts
        \cup {t \o <<"\n">> : t \in OpenMarkerTexts}
        \cup StringsUpTo({"a", "_", "*", "\n"}, MaxText)

SetRepairText == SetContentOf(RepairTexts)

SpecRepair == InitSanitizer /\ [][SetRepairText]_vars

\* tokenize on its own. A string is a sequence of UTF-16 code units: a letter,
\* a space or a line break is one unit, a character outside the basic plane
\* (an emoji) is a high surrogate followed by a low surrogate.
HighSurrogate == "uD83D"
LowSurrogate == "uDE00"

VisibleCharacters == {<<"a">>, <<" ">>, <<"\n">>, <<HighSurrogate, LowSurrogate>>}

TokenFragments ==
    {Join(cs) : cs \in StringsUpTo(VisibleCharacters, MaxVisible)} \ {<<>>}

InitTokenize == InitOf(DelayInputs)

\* The first fragment the host appends.
TokenizeChunk ==
    \E chunk \in TokenFragments :
        /\ onChunkLog = <<>>
        /\ Assign(appendChunk(Hook, chunk, 0))
        /\ frozen' = FALSE
        /\ lastOp' = Op("appendChunk", 0, DelayUndefined, 0)
        /\ UNCHANGED <<sourceRef, initialValue, nStarted>>

SpecTokenize == InitTokenize /\ [][TokenizeChunk]_vars

\* The drain on its own: the host drives the hook (fragments, mode and delay
\* changes, stop, reset, setContent, ticks in between), then goes quiet: no
\* fragment arrives and no operation is invoked any more, only the interval
\* callback runs, for as long as the interval is held.
Active == lastOp.op \notin {"quiesce", "drain"}

HostStep ==
    /\ Active
    /\ \/ AppendChunk
       \/ RevealTick
       \/ SetRevealMode
       \/ SetRevealDelay
       \/ Stop
       \/ Reset
       \/ SetContent

\* The last operation of the host has returned; lastOp.pre keeps the number of
\* tokens then pending.
Quiesce ==
    /\ Active
    /\ lastOp' = Op("quiesce", 0, DelayUndefined, Len(pendingTokensRef))
    /\ UNCHANGED <<bufferRef, content, fullContent, isStreaming, controllerRef,
                   sourceRef, initialValue, revealTimerRef, pendingTokensRef,
                   revealModeRef, revealDelayRef, sessions, nStarted, onChunkLog,
                   onEndCount, onErrorCount, frozen>>

DrainTick ==
    /\ ~Active
    /\ revealTimerRef
    /\ Assign(revealTick(Hook))
    /\ lastOp' = Op("drain", 0, DelayUndefined, lastOp.pre)
    /\ UNCHANGED <<sourceRef, initialValue, nStarted, frozen>>

DrainNext ==
    \/ HostStep
    \/ Quiesce
    \/ DrainTick

\* setInterval keeps calling the callback until clearInterval.
SpecDrain == Init /\ [][DrainNext]_vars /\ WF_vars(DrainTick)

\* The scenario: one start(SrcScenario) on an empty seed, in any mode.
InitScenario == InitOf(DelayInputs) /\ initialValue = <<>>

ScenarioStart ==
    /\ nStarted = 0
    /\ Assign(start(Hook, SrcScenario, 1))
    /\ nStarted' = 1
    /\ frozen' = FALSE
    /\ lastOp' = Op("start", 1, DelayUndefined, 0)
    /\ UNCHANGED <<sourceRef, initialValue>>

ScenarioStep ==
    \E sid \in SessionIds :
        /\ sessions[sid].pc = "running"
        /\ Assign(sessionStep(Hook, sid))
        /\ lastOp' = Op(StepKind(sessions[sid]), sid, DelayUndefined, sessions[sid].pos)
        /\ UNCHANGED <<sourceRef, initialValue, nStarted, frozen>>

ScenarioTick ==
    /\ revealTimerRef
    /\ Assign(revealTick(Hook))
    /\ lastOp' = Op("tick", 0, DelayUndefined, 0)
    /\ UNCHANGED <<sourceRef, initialValue, nStarted, frozen>>

ScenarioSetRevealMode ==
    \E mode \in Modes :
        /\ Assign(setRevealMode(Hook, mode))
        /\ frozen' = FALSE
        /\ lastOp' = Op("setRevealMode", 0, DelayUndefined, Len(pendingTokensRef))
        /\ UNCHANGED <<sourceRef, initialValue, nStarted>>

ScenarioNext ==
    \/ ScenarioStart
    \/ ScenarioStep
    \/ ScenarioTick
    \/ ScenarioSetRevealMode

SpecScenario == InitScenario /\ [][ScenarioNext]_vars

TypeOK ==
    /\ content \in Seq(STRING)
    /\ revealModeRef \in Modes
    /\ controllerRef \in 0..MaxSessions
    /\ fullContent = StreamBufferValue(bufferRef)

----------------------------------------------------------------------------
(* Properties *)

WordOrCharacter(mode) == mode \in {"word", "character"}

StepOps == {"fragment", "end", "throw", "unsupported"}

Live(ss) == {s \in SessionIds : ss[s].pc = "running" /\ ~ss[s].cancelled}

\* C1: in every reachable state the Visible Value (content) is a prefix of the
\* Accumulated Value (fullContent).
VisibleIsPrefix == IsPrefix(content, fullContent)

\* C2: the stop() step leaves the Visible Value as it was, and while the host has
\* not called start, appendChunk, setContent, reset or setRevealMode since, no
\* step (timer tick, loop resumption, setRevealDelay) changes the Visible Value
\* or calls onChunk.
StopFreezes ==
    [][frozen' => (content' = content /\ onChunkLog' = onChunkLog)]_vars

\* C2 witness: after stop(), the stopped session's source delivered one more
\* fragment, and the loop left without appending it.
StopFreezesWitness ==
    /\ frozen
    /\ lastOp.op = "fragment"
    /\ sessions[lastOp.sid].cancelled
    /\ sessions[lastOp.sid].pc = "done"
    /\ content # fullContent

\* C3: start() cancels every running session; a cancelled session stays
\* cancelled, its loop appends nothing to the buffer and calls neither onChunk,
\* onEnd nor onError; at most one session is live.
OneLiveSession ==
    [][ /\ (lastOp'.op = "start" =>
              \A s \in SessionIds :
                  sessions[s].pc = "running" => sessions'[s].cancelled)
        /\ \A s \in SessionIds :
              /\ sessions[s].cancelled => sessions'[s].cancelled
              /\ (sessions[s].cancelled /\ lastOp'.op \in StepOps /\ lastOp'.sid = s) =>
                    /\ bufferRef' = bufferRef
                    /\ fullContent' = fullContent
                    /\ onChunkLog' = onChunkLog
              /\ sessions[s].cancelled =>
                    /\ onEndCount'[s] = onEndCount[s]
                    /\ onErrorCount'[s] = onErrorCount[s]
        /\ Cardinality(Live(sessions')) <= 1 ]_vars

\* C3 witness: session b superseded session a and has already consumed a
\* fragment; then a's source delivered a fragment, which a's loop dropped.
OneLiveSessionWitness ==
    \E a, b \in SessionIds :
        /\ a # b
        /\ lastOp.op = "fragment"
        /\ lastOp.sid = a
        /\ sessions[a].cancelled
        /\ sessions[a].pc = "done"
        /\ sessions[b].pc = "running"
        /\ ~sessions[b].cancelled
        /\ sessions[b].pos > 0
        /\ onEndCount[a] = 0
        /\ onErrorCount[a] = 0

\* C4: setRevealMode("chunk") in word or character mode with tokens pending
\* makes the Visible Value equal to the whole Accumulated Value, empties the
\* pending queue and cancels the drain timer.
ModeSwitchFlush ==
    [][ ( /\ lastOp'.op = "setRevealMode"
          /\ WordOrCharacter(revealModeRef)
          /\ revealModeRef' = "chunk"
          /\ pendingTokensRef # <<>> )
        => ( /\ fullContent' = fullContent
             /\ content' = fullContent
             /\ pendingTokensRef' = <<>>
             /\ ~revealTimerRef' ) ]_vars

\* C4 witness: a switch to chunk mode that found tokens pending and a Visible
\* Value behind the Accumulated Value.
ModeSwitchFlushWitness ==
    /\ lastOp.op = "setRevealMode"
    /\ lastOp.pre > 0
    /\ revealModeRef = "chunk"
    /\ content = fullContent
    /\ Len(content) > Len(initialValue)

DelayZeroSynchronous ==
    [][ ( /\ revealDelayRef = 0
          /\ WordOrCharacter(revealModeRef)
          /\ lastOp'.op \in {"appendChunk", "fragment"}
          /\ Len(onChunkLog') = Len(onChunkLog) + 1 )
        => ( /\ pendingTokensRef' = <<>>
             /\ IsSuffix(onChunkLog'[Len(onChunkLog')], content') ) ]_vars

\* C7 as stated: the effective delay is the default when d is negative, NaN or
\* undefined, and d itself when d >= 0.
DelayClampDefault ==
    lastOp.op \in {"init", "setRevealDelay"} =>
        revealDelayRef =
            IF lastOp.arg.kind # "number" \/ lastOp.arg.val < 0
            THEN DEFAULT_REVEAL_DELAY
            ELSE lastOp.arg.val

\* C7 (amended): the effective delay is the default when d is NaN or undefined,
\* 0 when d is negative, and d itself when d >= 0.
DelayClampZero ==
    lastOp.op \in {"init", "setRevealDelay"} =>
        revealDelayRef =
            IF lastOp.arg.kind # "number" THEN DEFAULT_REVEAL_DELAY
            ELSE IF lastOp.arg.val < 0 THEN 0
            ELSE lastOp.arg.val

\* C7 witness: setRevealDelay was passed a negative delay.
DelayClampZeroWitness ==
    /\ lastOp.op = "setRevealDelay"
    /\ lastOp.arg.kind = "number"
    /\ lastOp.arg.val < 0
    /\ revealDelayRef = 0

\* C8: onEnd is called at most once per session, and only by the loop of a
\* session that is not cancelled and whose source is exhausted; no step calls
\* onError for a session that is cancelled.
TerminalSignals ==
    [][ \A s \in SessionIds :
          /\ onEndCount'[s] <= 1
          /\ onEndCount'[s] # onEndCount[s] =>
                /\ lastOp'.op = "end"
                /\ lastOp'.sid = s
                /\ ~sessions[s].cancelled
                /\ sessions[s].pos = Len(sessions[s].src.frags)
                /\ sessions[s].src.fin = "end"
                /\ onEndCount[s] = 0
          /\ sessions[s].cancelled => onErrorCount'[s] = onErrorCount[s] ]_vars

\* C8 witness: one session ended and called onEnd once; another was cancelled,
\* and its source raised afterwards without an onError call.
TerminalSignalsWitness ==
    \E a, b \in SessionIds :
        /\ onEndCount[a] = 1
        /\ lastOp.op = "throw"
        /\ lastOp.sid = b
        /\ sessions[b].cancelled
        /\ sessions[b].pc = "done"
        /\ onErrorCount[b] = 0

\* C9: start(s) with an unsupported source leaves the Accumulated Value, the
\* Visible Value, the pending queue and the drain timer as they were, and the
\* failure is reported through onError exactly once.
UnsupportedSourceUntouched ==
    [][ /\ (lastOp'.op = "start"
              /\ ~isSupportedShape(sessions'[lastOp'.sid].src.shape)) =>
              /\ fullContent' = fullContent
              /\ content' = content
              /\ pendingTokensRef' = pendingTokensRef
              /\ revealTimerRef' = revealTimerRef
        /\ (lastOp'.op = "unsupported" /\ ~sessions[lastOp'.sid].cancelled) =>
              /\ onErrorCount[lastOp'.sid] = 0
              /\ onErrorCount'[lastOp'.sid] = 1
              /\ fullContent' = fullContent
              /\ content' = content
              /\ pendingTokensRef' = pendingTokensRef
              /\ revealTimerRef' = revealTimerRef ]_vars

\* C10: when the source of a session that is not cancelled raises, onError is
\* called exactly once for it, the session is over for good (no retry, no new
\* session), the Accumulated Value is what it was and the Visible Value is not
\* shortened.
MidStreamFailure ==
    [][ \A s \in SessionIds :
          /\ (lastOp'.op = "throw" /\ lastOp'.sid = s /\ ~sessions[s].cancelled) =>
                /\ onErrorCount[s] = 0
                /\ onErrorCount'[s] = 1
                /\ onEndCount'[s] = 0
                /\ sessions'[s].pc = "done"
                /\ nStarted' = nStarted
                /\ bufferRef' = bufferRef
                /\ fullContent' = fullContent
                /\ IsPrefix(content, content')
          /\ sessions[s].pc = "done" =>
                /\ sessions'[s] = sessions[s]
                /\ onErrorCount'[s] = onErrorCount[s]
                /\ onEndCount'[s] = onEndCount[s] ]_vars

\* C10 witness: a source raised after at least one fragment was consumed; the
\* error was reported once and the accumulated text is still there.
MidStreamFailureWitness ==
    /\ lastOp.op = "throw"
    /\ lastOp.pre >= 1
    /\ ~sessions[lastOp.sid].cancelled
    /\ onErrorCount[lastOp.sid] = 1
    /\ onChunkLog # <<>>
    /\ IsSuffix(ChBC, fullContent)


\* The fragment session s's loop receives when it resumes.
NextFragment(s) == normalizeChunk(s.src.frags[s.pos + 1])

\* C11 as stated: appendChunk(f) takes the Accumulated Value from v to v
\* followed by f, and after every operation other than reset the Accumulated
\* Value is an extension of what it was.
MonotonicGrowthResetOnly ==
    [][ /\ lastOp'.op = "appendChunk" =>
              \E f \in HostChunks : fullContent' = fullContent \o f
        /\ lastOp'.op # "reset" => IsPrefix(fullContent, fullContent') ]_vars

\* C11 (amended): appendChunk(f), called by the host or by a session's loop,
\* takes the Accumulated Value from v to v followed by f (unchanged when f is
\* empty), and reset and setContent are the only operations after which the
\* Accumulated Value is not an extension of what it was.
MonotonicGrowth ==
    [][ /\ lastOp'.op = "appendChunk" =>
              \/ /\ onChunkLog' = onChunkLog
                 /\ fullContent' = fullContent
              \/ \E f \in HostChunks \ {<<>>} :
                    /\ onChunkLog' = Append(onChunkLog, f)
                    /\ fullContent' = fullContent \o f
        /\ (lastOp'.op = "fragment" /\ ~sessions[lastOp'.sid].cancelled) =>
              fullContent' = fullContent \o NextFragment(sessions[lastOp'.sid])
        /\ lastOp'.op \notin {"reset", "setContent"} =>
              IsPrefix(fullContent, fullContent') ]_vars

\* C11 witness: two appendChunk calls, the Accumulated Value is the first
\* fragment followed by the second.
MonotonicGrowthWitness ==
    /\ lastOp.op = "appendChunk"
    /\ onChunkLog = <<ChA, ChBC>>
    /\ fullContent = ChA \o ChBC

\* C12: after reset() the Accumulated Value and the Visible Value both equal
\* the seed, after setContent(v) both equal v; in both cases the pending queue
\* is empty and no drain timer is held.
WholesaleReplacement ==
    [][ /\ lastOp'.op = "reset" =>
              /\ fullContent' = initialValue
              /\ content' = initialValue
              /\ pendingTokensRef' = <<>>
              /\ ~revealTimerRef'
        /\ lastOp'.op = "setContent" =>
              /\ fullContent' \in ContentValues
              /\ content' = fullContent'
              /\ pendingTokensRef' = <<>>
              /\ ~revealTimerRef' ]_vars

\* C12 witness: setContent(v) was called while tokens were pending.
WholesaleReplacementWitness ==
    /\ lastOp.op = "setContent"
    /\ lastOp.pre >= 2
    /\ content \in ContentValues
    /\ pendingTokensRef = <<>>
    /\ onChunkLog # <<>>

\* C13: onChunk is called exactly when a fragment is appended to the buffer,
\* with that fragment, after the earlier calls; a loop resumption whose
\* fragment normalizes to the empty text appends nothing, calls no callback and
\* leaves the session running at the next fragment.
OnChunkBookkeeping ==
    [][ /\ onChunkLog' # onChunkLog =>
              /\ lastOp'.op \in {"appendChunk", "fragment"}
              /\ Len(onChunkLog') = Len(onChunkLog) + 1
              /\ onChunkLog' = Append(onChunkLog, onChunkLog'[Len(onChunkLog')])
              /\ bufferRef' = Append(bufferRef, onChunkLog'[Len(onChunkLog')])
        /\ (lastOp'.op \in {"appendChunk", "fragment"} /\ bufferRef' # bufferRef) =>
              onChunkLog' # onChunkLog
        /\ \A s \in SessionIds :
              (lastOp'.op = "fragment" /\ lastOp'.sid = s /\ ~sessions[s].cancelled) =>
                  IF NextFragment(sessions[s]) = <<>>
                  THEN /\ onChunkLog' = onChunkLog
                       /\ bufferRef' = bufferRef
                       /\ onEndCount' = onEndCount
                       /\ onErrorCount' = onErrorCount
                       /\ sessions'[s] = [sessions[s] EXCEPT !.pos = @ + 1]
                       /\ sessions'[s].pc = "running"
                  ELSE /\ onChunkLog' = Append(onChunkLog, NextFragment(sessions[s]))
                       /\ bufferRef' = Append(bufferRef, NextFragment(sessions[s])) ]_vars

\* C13 witness: a source delivered null and then a string; the null was
\* skipped and the string was appended and passed to onChunk.
OnChunkBookkeepingWitness ==
    /\ lastOp.op = "fragment"
    /\ lastOp.pre = 1
    /\ sessions[lastOp.sid].src.frags[1] = RawNull
    /\ sessions[lastOp.sid].pos = 2
    /\ ~sessions[lastOp.sid].cancelled
    /\ onChunkLog = <<ChA>>

\* The scenario's session has just consumed its n-th fragment in chunk mode.
ScenarioAfter(n) ==
    /\ revealModeRef = "chunk"
    /\ lastOp.op = "fragment"
    /\ lastOp.pre = n - 1
    /\ sessions[lastOp.sid].src = SrcScenario
    /\ ~sessions[lastOp.sid].cancelled

\* The scenario's session has just found its source exhausted, in chunk mode.
ScenarioEnded ==
    /\ revealModeRef = "chunk"
    /\ lastOp.op = "end"
    /\ lastOp.pre = Len(SrcScenario.frags)
    /\ onEndCount[lastOp.sid] = 1

\* C14 as stated: in chunk mode the Sanitized Value after the second fragment
\* is '# Hi<LF>this is **bo**<LF>' and the final one is
\* '# Hi<LF>this is **bold**<LF>'.
ScenarioAsStated ==
    /\ ScenarioAfter(2) =>
          SanitizedValue = ScenarioF1 \o ScenarioF2 \o <<"*", "*", "\n">>
    /\ ScenarioEnded =>
          SanitizedValue = ScenarioF1 \o ScenarioF2 \o ScenarioF3

\* C14 (amended): in chunk mode the Sanitized Value after the second fragment
\* is '# Hi<LF>this is **bo**', with no line break after the closing marker,
\* and the final one is '# Hi<LF>this is **bold**<LF>'.
ScenarioSanitized ==
    /\ ScenarioAfter(2) =>
          /\ content = ScenarioF1 \o ScenarioF2
          /\ SanitizedValue = ScenarioF1 \o ScenarioF2 \o <<"*", "*">>
    /\ ScenarioEnded =>
          /\ content = ScenarioF1 \o ScenarioF2 \o ScenarioF3
          /\ SanitizedValue = ScenarioF1 \o ScenarioF2 \o ScenarioF3

\* C14 witness: the second fragment has arrived in chunk mode and the
\* sanitizer has closed the open bold marker.
ScenarioSanitizedWitness ==
    /\ ScenarioAfter(2)
    /\ onChunkLog = <<ScenarioF1, ScenarioF2>>
    /\ SanitizedValue # content
    /\ IsSuffix(<<"b", "o", "*", "*">>, SanitizedValue)

\* The last character of the prose is a letter: the marker that follows stands
\* inside a word.
EndsWithLetter(p) == p # <<>> /\ p[Len(p)] \in Letters

\* C15 as stated: for prose followed by one opening marker M and a run of
\* letters, the sanitizer returns the text with M appended.
OpenMarkerClosedAlways ==
    \A p \in Prose, M \in Markers, r \in LetterRuns :
        content = p \o M \o r => SanitizedValue = content \o M

\* C15 (amended): for prose followed by one opening marker M and a run of
\* letters, the sanitizer returns the text with M appended, except that a
\* single "_" directly after a letter is left as it is and the text is
\* returned unchanged.
OpenMarkerClosed ==
    \A p \in Prose, M \in Markers, r \in LetterRuns :
        content = p \o M \o r =>
            SanitizedValue =
                IF M = <<"_">> /\ EndsWithLetter(p) THEN content ELSE content \o M

\* C15 witness: 'a **x' was sanitized to 'a **x**'.
OpenMarkerClosedWitness ==
    /\ lastOp.op = "setContent"
    /\ content = <<"a", " ", "*", "*", "x">>
    /\ SanitizedValue = <<"a", " ", "*", "*", "x", "*", "*">>

\* C16: a text that ends with a complete link [t](u), u made of URL
\* characters, is returned unchanged by the sanitizer.
ValidLinksPreserved ==
    content \in ValidLinkTexts => SanitizedValue = content

\* C17: for a text ending in [t](u without the closing ")" or in [t without
\* the closing "]", the sanitizer's output ends with
\* '](streamdown:incomplete-link)' and is exactly the output of the link stage.
BrokenLinksRepaired ==
    content \in BrokenLinkTexts =>
        /\ IsSuffix(PlaceholderTail, SanitizedValue)
        /\ SanitizedValue = handleIncompleteLinksAndImages(content)

\* C18: for a text ending in ![t or ![t](u the sanitized output holds no
\* unterminated "![", and for ![t it is the text that preceded the marker.
HalfTypedImagesSuppressed ==
    /\ content \in OpenImageTexts \cup OpenImageUrlTexts =>
          Occurrences(SanitizedValue, <<"!", "[">>) = {}
    /\ \A p \in LinkProse, t \in LinkWords \cup {<<>>} :
          content = p \o <<"!", "[">> \o t => SanitizedValue = p

\* C19: a text that ends with a complete fenced code block is returned
\* unchanged, whatever emphasis markers stand inside the block.
NoFalsePositivesInCode ==
    content \in FencedTexts => SanitizedValue = content

\* C20: sanitizing the sanitizer's output changes nothing.
SanitizerIdempotent ==
    sanitizeIncompleteMarkdown(SanitizedValue) = SanitizedValue

\* C21: in every reachable state, if the drain timer is held then the pending
\* token queue is not empty.
TimerImpliesTokens == revealTimerRef => pendingTokensRef # <<>>

\* C29: in every reachable state in which the reveal mode is chunk, the
\* Visible Value equals the Accumulated Value, the pending queue is empty and
\* no drain timer is held.
ChunkModeSynchronous ==
    revealModeRef = "chunk" =>
        /\ content = fullContent
        /\ pendingTokensRef = <<>>
        /\ ~revealTimerRef

\* C29 witness: two fragments were appended in chunk mode and are visible.
ChunkModeSynchronousWitness ==
    /\ revealModeRef = "chunk"
    /\ lastOp.op = "appendChunk"
    /\ Len(onChunkLog) = 2
    /\ content = initialValue \o Join(onChunkLog)
    /\ content = fullContent

\* C30: in every reachable state isStreaming is true exactly when the loop of
\* a session that is not cancelled is running.
IsStreamingTracksLive == isStreaming <=> Live(sessions) # {}

\* C22: for every text without "[" and without a complete fenced code block in
\* which the number of "**" occurrences is odd and the last "**" is followed by
\* a character that is neither whitespace nor one of _ ~ * and the backtick,
\* the sanitized text is the text with "**" appended at least, and holds an
\* even number of "**" occurrences.
OddBoldClosed ==
    LET bold == <<"*", "*">>
        last == lastIndexOf(content, bold)
    IN  ( /\ ~includes(content, "[")
          /\ ~hasCompleteCodeBlock(content)
          /\ countMatches(content, bold) % 2 = 1
          /\ ~IsNoise(Drop(content, last + 1)) )
        => ( /\ IsPrefix(content \o bold, SanitizedValue)
             /\ countMatches(SanitizedValue, bold) % 2 = 0 )

\* C23: for every marker family, a text made of prose without markers, the
\* marker, and then nothing or whitespace only comes out of the sanitizer as it
\* went in: no closing marker is added.
BareMarkerLeftAlone ==
    content \in BareMarkerTexts => SanitizedValue = content

\* C24: for every text with an odd number of "$$" delimiters, the sanitized
\* text is the text followed by a line break and "$$" when a line break follows
\* the last "$$" of the text, and the text followed by "$$" otherwise.
BlockMathClosing ==
    LET math == <<"$", "$">>
        last == lastIndexOf(content, math)
    IN  ( /\ content \in MathTexts
          /\ countMatches(content, math) % 2 = 1 )
        => SanitizedValue =
              IF includes(Drop(content, last + 1), "\n")
              THEN content \o <<"\n">> \o math
              ELSE content \o math

\* C26: for every text made of a complete fenced code block, a line break and
\* prose that ends in an unterminated "**bold" or "*italic" span, the
\* sanitized text is the text followed by the closing marker of that span.
ClosedAfterCodeBlock ==
    \A p \in {<<>>, <<"a", " ">>}, M \in {<<"*", "*">>, <<"*">>}, r \in LetterRuns :
        content = AfterFenceText(p, M, r) => SanitizedValue = content \o M

\* The closing markers the stages add.
ClosingMarkers == BlockMarkers \cup {<<"\n", "$", "$">>}

\* s is a concatenation of closing markers.
RECURSIVE IsClosers(_)
IsClosers(s) ==
    \/ s = <<>>
    \/ \E c \in ClosingMarkers : IsPrefix(c, s) /\ IsClosers(Drop(s, Len(c)))

\* C25: for every text x without "[", the sanitized text is x with closing
\* markers inserted at its end or just before its trailing line breaks: it
\* reads body, closers, x's trailing line breaks, closers, where x is body
\* followed by the trailing line breaks, and the first closers hold no line
\* break.
AppendOnlyRepair ==
    LET n == TrailingNewlines(content)
        body == Take(content, Len(content) - n)
        breaks == Drop(content, Len(content) - n)
        rest == Drop(SanitizedValue, Len(body))
    IN  ~includes(content, "[") =>
            /\ IsPrefix(body, SanitizedValue)
            /\ \E i \in 0..(Len(rest) - n) :
                  /\ IsClosers(Take(rest, i))
                  /\ ~includes(Take(rest, i), "\n")
                  /\ SubSeq(rest, i + 1, i + n) = breaks
                  /\ IsClosers(Drop(rest, i + n))

\* C25 witness: an open underscore span before a line break: the closer went in
\* before the line break, which is still the last character.
AppendOnlyRepairWitness ==
    /\ lastOp.op = "setContent"
    /\ content = <<"_", "x", "\n">>
    /\ SanitizedValue = <<"_", "x", "_", "\n">>

\* C27: for the fragment f just appended and every reveal mode, the tokens of
\* tokenize(f, mode) concatenate to f; in word mode every token is a non-empty
\* run of whitespace only or of non-whitespace only and no two neighbours are of
\* the same kind, in character mode every token is one visible character, in
\* chunk mode f is the only token; and with a positive delay in word or
\* character mode these tokens are what the pending queue holds.
TokenizeLossless ==
    (lastOp.op = "appendChunk" /\ Len(onChunkLog) = 1) =>
        LET f == onChunkLog[1]
            words == tokenize(f, "word")
            chars == tokenize(f, "character")
        IN  /\ \A mode \in Modes : Join(tokenize(f, mode)) = f
            /\ \A i \in 1..Len(words) :
                  /\ words[i] # <<>>
                  /\ \A j \in 1..Len(words[i]) :
                        IsWhitespace(words[i][j]) = IsWhitespace(words[i][1])
                  /\ i > 1 => IsWhitespace(words[i][1]) # IsWhitespace(words[i - 1][1])
            /\ \A i \in 1..Len(chars) : chars[i] \in VisibleCharacters
            /\ tokenize(f, "chunk") = <<f>>
            /\ (WordOrCharacter(revealModeRef) /\ revealDelayRef > 0) =>
                  pendingTokensRef = tokenize(f, revealModeRef)

Idle == pendingTokensRef = <<>> /\ ~revealTimerRef

\* C28: once the host has gone quiet, every step appends the head of the
\* pending queue to the Visible Value or changes neither (the Visible Value
\* followed by the pending tokens stays the same text), and under weak fairness
\* of the drain tick the scheduler eventually is idle: the queue is empty and no
\* timer is held.
DrainLiveness ==
    /\ [][ ~Active =>
              /\ content' \o Join(pendingTokensRef') = content \o Join(pendingTokensRef)
              /\ IsPrefix(content, content') ]_vars
    /\ (~Active ~> (~Active /\ Idle))

\* C28 witness: the host went quiet with two tokens or more pending, and the
\* ticks have revealed them all and released the timer.
DrainLivenessWitness ==
    /\ lastOp.op = "drain"
    /\ lastOp.pre >= 2
    /\ Idle
    /\ Len(content) >= Len(initialValue) + 2

====
